---- MODULE Spec2Model ----
(***************************************************************************)
(* Countries and cities (locations.py), the three vehicles (vehicles.py),  *)
(* trips (trip.py) and the routing engine (path_finding.py).               *)
(*                                                                         *)
(* Objects live in two heaps (countryObjs, cityObjs); a reference is an    *)
(* index into its heap, so that Python's identity comparison of Country    *)
(* objects is the comparison of two indices.  Python dicts keep insertion  *)
(* order, so a dict is a sequence of [key, val] entries.                   *)
(***************************************************************************)
EXTENDS Integers, Sequences, FiniteSets, TLC

VARIABLES
    countries,     \* Country.countries : dict name -> Country reference
    cities,        \* City.cities       : dict city_id -> City reference
    countryObjs,   \* heap of Country objects [name, iso3, cities]
    cityObjs,      \* heap of City objects [name, coordinate, country, city_id, capital_type]
    vehicleObjs,   \* heap of the Vehicle objects constructed
    sequence,      \* Trip.sequence of the trip under construction (<<>>: no trip yet)
    calls,         \* history: the arguments of Trip(...) and of its add_next_city calls
    instance,      \* NavigationSystem.instance (None or a reference)
    systemObjs,    \* heap of NavigationSystem objects [vehicles, trips]
    ui,            \* the UI element being executed and its fields
    op,            \* the last call made: its name and its arguments
    result         \* what the last call returned or raised

vars == <<countries, cities, countryObjs, cityObjs, vehicleObjs, sequence, calls,
          instance, systemObjs, ui, op, result>>

----------------------------------------------------------------------------
(* Bounds *)

\* most records of a city file read before routing
MaxCities == 3
\* most records of a city file read before single legs are evaluated
PairCities == 2
\* longest Trip.sequence built
MaxTripLen == 3
\* longest vehicle list handed to find_fastest_vehicle
MaxVehicles == 2
\* most Vehicle objects constructed
MaxVehicleObjs == 1
\* most Country objects constructed by hand
MaxCountryObjs == 2
\* most City objects constructed by hand
MaxCityObjs == 2
\* most NavigationSystem objects the heap has room for
MaxSystemObjs == 2
\* most vehicles on the list of the NavigationSystem
MaxSystemVehicles == 1
\* most trips on the list of the NavigationSystem
MaxSystemTrips == 1

----------------------------------------------------------------------------
(* Python values *)

\* math.inf, above every finite travel time of the model
inf == 1000000

None == [kind |-> "None"]

Returned(v) == [kind |-> "return", value |-> v]

Raised(e) == [kind |-> "raise", exc |-> e]

NoCall == [name |-> "none"]

\* a list handed to a call as an optional argument
List(items) == [kind |-> "list", items |-> items]

\* Python's truth value of an optional list: None and [] are false
Truthy(v) == v.kind = "list" /\ v.items # <<>>

\* a reference to a City object handed back by a call
CityRef(c) == [kind |-> "City", ref |-> c]

\* dict lookup helpers over a sequence of [key, val] entries
DictKeys(d) == {d[i].key : i \in 1..Len(d)}

DictGet(d, k) == LET i == CHOOSE j \in 1..Len(d) : d[j].key = k IN d[i].val

\* d[k] = v : an existing key keeps its position, a new key goes last
DictSet(d, k, v) ==
    IF k \in DictKeys(d)
    THEN LET i == CHOOSE j \in 1..Len(d) : d[j].key = k
         IN SubSeq(d, 1, i - 1) \o <<[key |-> k, val |-> v]>>
                \o SubSeq(d, i + 1, Len(d))
    ELSE Append(d, [key |-> k, val |-> v])

\* list(d.values())
DictValues(d) == [i \in 1..Len(d) |-> d[i].val]

----------------------------------------------------------------------------
(* locations.py *)

\* CapitalType.__members__
CapitalTypeMembers == {"primary", "admin", "minor", "unspecified"}

\* str.upper() on the ISO codes used
upper(s) ==
    CASE s = "xxx" -> "XXX"
      [] s = "yyy" -> "YYY"
      [] OTHER -> s

\* float(s): a numeric field gives its number, anything else raises ValueError
IsNumeric(raw) == raw.numeric

float(raw) == raw.value

Num(n) == [numeric |-> TRUE, value |-> n]

\* a field float() cannot read
NotANumber == [numeric |-> FALSE, text |-> "north"]

Registry == [countries |-> countries, cities |-> cities,
             countryObjs |-> countryObjs, cityObjs |-> cityObjs]

EmptyRegistry == [countries |-> <<>>, cities |-> <<>>,
                  countryObjs |-> <<>>, cityObjs |-> <<>>]

\* Country(name, iso3)
Country__init__(reg, name, iso3) ==
    LET self == Len(reg.countryObjs) + 1
        obj == [name |-> name, iso3 |-> upper(iso3), cities |-> <<>>]
    IN [reg EXCEPT !.countryObjs = Append(@, obj),
                   !.countries = DictSet(@, name, self)]

\* Country._add_city
_add_city(reg, self, city) ==
    [reg EXCEPT !.countryObjs[self].cities = Append(@, city)]

\* mutant: the global index is written before the country is looked up
City__init___IndexFirst(reg, name, latitude, longitude, country, capital_type, city_id) ==
    IF ~IsNumeric(latitude) \/ ~IsNumeric(longitude)
    THEN [reg |-> reg, outcome |-> Raised("ValueError")]
    ELSE
      LET self == Len(reg.cityObjs) + 1
          known == country \in DictKeys(reg.countries)
          owner == IF known THEN DictGet(reg.countries, country) ELSE 0
          obj == [name |-> name,
                  coordinate |-> <<float(latitude), float(longitude)>>,
                  country |-> owner,
                  city_id |-> city_id,
                  capital_type |-> IF capital_type \in CapitalTypeMembers
                                   THEN capital_type ELSE "unspecified"]
          r1 == [reg EXCEPT !.cityObjs = Append(@, obj),
                            !.cities = DictSet(@, city_id, self)]
      IN IF known
         THEN [reg |-> _add_city(r1, owner, self), outcome |-> Returned(None)]
         ELSE [reg |-> r1, outcome |-> Raised("KeyError")]

\* mutant: the capital type is stored as it is given
City__init___RawCapital(reg, name, latitude, longitude, country, capital_type, city_id) ==
    IF ~IsNumeric(latitude) \/ ~IsNumeric(longitude)
    THEN [reg |-> reg, outcome |-> Raised("ValueError")]
    ELSE IF country \notin DictKeys(reg.countries)
    THEN [reg |-> reg, outcome |-> Raised("KeyError")]
    ELSE
      LET self == Len(reg.cityObjs) + 1
          owner == DictGet(reg.countries, country)
          obj == [name |-> name,
                  coordinate |-> <<float(latitude), float(longitude)>>,
                  country |-> owner,
                  city_id |-> city_id,
                  capital_type |-> capital_type]
          r1 == [reg EXCEPT !.cityObjs = Append(@, obj),
                            !.cities = DictSet(@, city_id, self)]
      IN [reg |-> _add_city(r1, owner, self), outcome |-> Returned(None)]

\* City(name, latitude, longitude, country, capital_type, city_id):
\* the registry after the call and whether the call raised
City__init__(reg, name, latitude, longitude, country, capital_type, city_id) ==
    IF ~IsNumeric(latitude) \/ ~IsNumeric(longitude)
    THEN [reg |-> reg, outcome |-> Raised("ValueError")]
    ELSE IF country \notin DictKeys(reg.countries)
    THEN [reg |-> reg, outcome |-> Raised("KeyError")]
    ELSE
      LET self == Len(reg.cityObjs) + 1
          owner == DictGet(reg.countries, country)
          obj == [name |-> name,
                  coordinate |-> <<float(latitude), float(longitude)>>,
                  country |-> owner,
                  city_id |-> city_id,
                  capital_type |-> IF capital_type \in CapitalTypeMembers
                                   THEN capital_type ELSE "unspecified"]
          r1 == [reg EXCEPT !.cityObjs = Append(@, obj),
                            !.cities = DictSet(@, city_id, self)]
      IN [reg |-> _add_city(r1, owner, self), outcome |-> Returned(None)]

\* Country.get_cities: the list itself without a filter (None or []),
\* else the cities whose capital_type is in capital_types
get_cities(reg, self, capital_types) ==
    IF ~Truthy(capital_types)
    THEN reg.countryObjs[self].cities
    ELSE LET wanted == {capital_types.items[i] : i \in 1..Len(capital_types.items)}
             keep(city) == reg.cityObjs[city].capital_type \in wanted
         IN SelectSeq(reg.countryObjs[self].cities, keep)

\* mutant: the last city of the name is returned
get_city_Last(reg, self, city_name) ==
    LET named(city) == reg.cityObjs[city].name = city_name
        found == SelectSeq(reg.countryObjs[self].cities, named)
    IN IF found = <<>> THEN None ELSE CityRef(found[Len(found)])

\* Country.get_city
get_city(reg, self, city_name) ==
    LET named(city) == reg.cityObjs[city].name = city_name
        found == SelectSeq(reg.countryObjs[self].cities, named)
    IN IF found = <<>> THEN None ELSE CityRef(found[1])

\* metres of great circle per degree of arc: 6371.009 km * pi / 180
MetresPerDegree == 111195

Abs(x) == IF x < 0 THEN -x ELSE x

\* mutant: the arc keeps the sign of the difference of the latitudes
great_circle_Signed(p, q) == MetresPerDegree * (p[1] - q[1])

\* geopy's great_circle(...).kilometers, in metres, between two points of
\* one meridian: the arc is the difference of the latitudes
great_circle(p, q) == MetresPerDegree * Abs(p[1] - q[1])

\* round() of a number of metres to whole kilometres
round(metres) == (metres + 500) \div 1000

\* City.distance
distance(reg, self, other_city) ==
    round(great_circle(reg.cityObjs[self].coordinate,
                       reg.cityObjs[other_city].coordinate))

----------------------------------------------------------------------------
(* city_country_csv_reader.py *)

RECURSIVE LoadRecords(_, _)
\* the registration loop of create_cities_countries_from_CSV over the
\* parsed records
LoadRecords(reg, records) ==
    IF records = <<>> THEN reg
    ELSE
      LET record == Head(records)
          r1 == IF record.country \notin DictKeys(reg.countries)
                THEN Country__init__(reg, record.country, record.iso3)
                ELSE reg
          r2 == City__init__(r1, record.city_ascii, record.lat, record.lng,
                             record.country, record.capital, record.id)
      IN LoadRecords(r2.reg, Tail(records))

create_cities_countries_from_CSV(records) == LoadRecords(EmptyRegistry, records)

----------------------------------------------------------------------------
(* vehicles.py *)

\* math.ceil(a / b) for a >= 0 and b # 0
ceil(a, b) == IF b > 0 THEN (a + b - 1) \div b ELSE -(a \div (-b))

CrappyCrepeCar(speed) == [cls |-> "CrappyCrepeCar", speed |-> speed]

DiplomacyDonutDinghy(in_country_speed, between_primary_speed) ==
    [cls |-> "DiplomacyDonutDinghy", in_country_speed |-> in_country_speed,
     between_primary_speed |-> between_primary_speed]

TeleportingTarteTrolley(travel_time, max_distance) ==
    [cls |-> "TeleportingTarteTrolley", travel_time |-> travel_time,
     max_distance |-> max_distance]

\* mutant: the hours are rounded down
CrepeCar_compute_travel_time_Floor(reg, self, departure, arrival) ==
    LET d == distance(reg, departure, arrival)
    IN d \div self.speed

CrepeCar_compute_travel_time(reg, self, departure, arrival) ==
    LET d == distance(reg, departure, arrival)
    IN ceil(d, self.speed)

\* mutant: two primary capitals are always sailed between at the speed
\* between primary capitals
Dinghy_compute_travel_time_PrimarySpeed(reg, self, departure, arrival) ==
    LET in_country == reg.cityObjs[departure].country = reg.cityObjs[arrival].country
        primaries == /\ reg.cityObjs[departure].capital_type = "primary"
                     /\ reg.cityObjs[arrival].capital_type = "primary"
    IN IF ~in_country /\ ~primaries
       THEN inf
       ELSE LET d == distance(reg, departure, arrival)
            IN ceil(d, IF primaries THEN self.between_primary_speed
                       ELSE self.in_country_speed)

\* mutant: only the departure has to be a primary capital
Dinghy_compute_travel_time_DepartureOnly(reg, self, departure, arrival) ==
    LET in_country == reg.cityObjs[departure].country = reg.cityObjs[arrival].country
    IN IF ~in_country /\ reg.cityObjs[departure].capital_type # "primary"
       THEN inf
       ELSE LET d == distance(reg, departure, arrival)
            IN ceil(d, IF in_country THEN self.in_country_speed
                       ELSE self.between_primary_speed)

\* mutant: one primary capital is enough to cross a border
Dinghy_compute_travel_time_And(reg, self, departure, arrival) ==
    LET in_country == reg.cityObjs[departure].country = reg.cityObjs[arrival].country
    IN IF ~in_country /\ (reg.cityObjs[departure].capital_type # "primary"
                          /\ reg.cityObjs[arrival].capital_type # "primary")
       THEN inf
       ELSE LET d == distance(reg, departure, arrival)
            IN ceil(d, IF in_country THEN self.in_country_speed
                       ELSE self.between_primary_speed)

Dinghy_compute_travel_time(reg, self, departure, arrival) ==
    LET in_country == reg.cityObjs[departure].country = reg.cityObjs[arrival].country
    IN IF ~in_country /\ (reg.cityObjs[departure].capital_type # "primary"
                          \/ reg.cityObjs[arrival].capital_type # "primary")
       THEN inf
       ELSE LET d == distance(reg, departure, arrival)
            IN ceil(d, IF in_country THEN self.in_country_speed
                       ELSE self.between_primary_speed)

\* mutant: the maximum distance itself is within range
Trolley_compute_travel_time_Inclusive(reg, self, departure, arrival) ==
    LET d == distance(reg, departure, arrival)
    IN IF d > self.max_distance THEN inf ELSE self.travel_time

Trolley_compute_travel_time(reg, self, departure, arrival) ==
    LET d == distance(reg, departure, arrival)
    IN IF d >= self.max_distance THEN inf ELSE self.travel_time

\* Vehicle.compute_travel_time, dispatched on the class of the vehicle
compute_travel_time(reg, self, departure, arrival) ==
    CASE self.cls = "CrappyCrepeCar" ->
            CrepeCar_compute_travel_time(reg, self, departure, arrival)
      [] self.cls = "DiplomacyDonutDinghy" ->
            Dinghy_compute_travel_time(reg, self, departure, arrival)
      [] self.cls = "TeleportingTarteTrolley" ->
            Trolley_compute_travel_time(reg, self, departure, arrival)

\* vehicle.compute_travel_time(departure, arrival) divides by a zero speed
DividesByZero(reg, self, departure, arrival) ==
    CASE self.cls = "CrappyCrepeCar" -> self.speed = 0
      [] self.cls = "DiplomacyDonutDinghy" ->
            LET in_country == reg.cityObjs[departure].country
                                  = reg.cityObjs[arrival].country
            IN IF in_country THEN self.in_country_speed = 0
               ELSE /\ reg.cityObjs[departure].capital_type = "primary"
                    /\ reg.cityObjs[arrival].capital_type = "primary"
                    /\ self.between_primary_speed = 0
      [] self.cls = "TeleportingTarteTrolley" -> FALSE

\* the outcome of vehicle.compute_travel_time(departure, arrival): the
\* division by a zero speed raises
compute_travel_time_outcome(reg, self, departure, arrival) ==
    IF DividesByZero(reg, self, departure, arrival)
    THEN Raised("ZeroDivisionError")
    ELSE Returned(compute_travel_time(reg, self, departure, arrival))

----------------------------------------------------------------------------
(* trip.py *)

\* Trip(departure)
Trip__init__(departure) == <<departure>>

\* mutant: the city is put in front of the sequence
add_next_city_Front(seq, city) == <<city>> \o seq

\* Trip.add_next_city
add_next_city(seq, city) == Append(seq, city)

RECURSIVE TravelTimeFrom_SkipImpossible(_, _, _, _, _)
\* mutant: an impossible leg is skipped instead of ending the loop
TravelTimeFrom_SkipImpossible(reg, seq, vehicle, i, total_time) ==
    IF i > Len(seq) - 1 THEN total_time
    ELSE LET time == compute_travel_time(reg, vehicle, seq[i], seq[i + 1])
         IN TravelTimeFrom_SkipImpossible(reg, seq, vehicle, i + 1,
                IF time = inf THEN total_time ELSE total_time + time)

RECURSIVE TravelTimeFrom(_, _, _, _, _)
\* the loop of Trip.total_travel_time from leg i on, total_time so far
TravelTimeFrom(reg, seq, vehicle, i, total_time) ==
    IF i > Len(seq) - 1 THEN total_time
    ELSE LET source == seq[i]
             destination == seq[i + 1]
             time == compute_travel_time(reg, vehicle, source, destination)
         IN IF time = inf THEN inf
            ELSE TravelTimeFrom(reg, seq, vehicle, i + 1, total_time + time)

\* mutant: the first leg is left out
total_travel_time_FromSecond(reg, seq, vehicle) == TravelTimeFrom(reg, seq, vehicle, 2, 0)

\* Trip.total_travel_time
total_travel_time(reg, seq, vehicle) == TravelTimeFrom(reg, seq, vehicle, 1, 0)

\* min() of a non-empty list of numbers
min(xs) == CHOOSE m \in {xs[i] : i \in 1..Len(xs)} :
               \A i \in 1..Len(xs) : m <= xs[i]

\* mutant: of the vehicles that tie, the last is returned
find_fastest_vehicle_LastTie(reg, seq, vehicles) ==
    LET travel_times == [i \in 1..Len(vehicles) |->
                            total_travel_time(reg, seq, vehicles[i])]
    IN IF vehicles = <<>> THEN Raised("ValueError")
       ELSE LET minimum == min(travel_times)
                i == CHOOSE k \in 1..Len(vehicles) :
                        /\ travel_times[k] = minimum
                        /\ \A j \in (k + 1)..Len(vehicles) : travel_times[j] # minimum
            IN Returned([index |-> i, vehicle |-> vehicles[i], time |-> minimum])

\* Trip.find_fastest_vehicle: the vehicle returned is an element of the
\* list given, identified by its position
find_fastest_vehicle(reg, seq, vehicles) ==
    LET travel_times == [i \in 1..Len(vehicles) |->
                            total_travel_time(reg, seq, vehicles[i])]
    IN IF vehicles = <<>> THEN Raised("ValueError")
       ELSE LET minimum == min(travel_times)
                i == CHOOSE k \in 1..Len(vehicles) :
                        /\ travel_times[k] = minimum
                        /\ \A j \in 1..(k - 1) : travel_times[j] # minimum
            IN Returned([index |-> i, vehicle |-> vehicles[i], time |-> minimum])

----------------------------------------------------------------------------
(* path_finding.py *)

\* a networkx Graph: dict node -> dict neighbour -> weight attribute
EmptyGraph == <<>>

add_node(graph, n) ==
    IF n \in DictKeys(graph) THEN graph ELSE DictSet(graph, n, <<>>)

add_edge(graph, u, v, weight) ==
    LET g1 == add_node(add_node(graph, u), v)
        g2 == DictSet(g1, u, DictSet(DictGet(g1, u), v, weight))
    IN DictSet(g2, v, DictSet(DictGet(g2, v), u, weight))

RECURSIVE AddNodes(_, _, _, _)
AddNodes(reg, graph, cs, k) ==
    IF k > Len(cs) THEN graph
    ELSE AddNodes(reg, add_node(graph, reg.cityObjs[cs[k]].city_id), cs, k + 1)

\* mutant: the test is inverted
EdgeWeight_Inverted(reg, vehicle, source, destination) ==
    compute_travel_time(reg, vehicle, source, destination) # inf

\* the value bound by "weight := vehicle.compute_travel_time(...) == inf":
\* the comparison binds tighter than :=, so weight is the boolean
EdgeWeight(reg, vehicle, source, destination) ==
    compute_travel_time(reg, vehicle, source, destination) = inf

RECURSIVE AddEdges(_, _, _, _, _, _)
\* the double loop over i < j, in 1-based positions
AddEdges(reg, vehicle, graph, cs, i, j) ==
    IF i > Len(cs) - 1 THEN graph
    ELSE IF j > Len(cs) THEN AddEdges(reg, vehicle, graph, cs, i + 1, i + 2)
    ELSE LET source == cs[i]
             destination == cs[j]
             weight == EdgeWeight(reg, vehicle, source, destination)
         IN IF weight
            THEN AddEdges(reg, vehicle, graph, cs, i, j + 1)
            ELSE AddEdges(reg, vehicle,
                          add_edge(graph, reg.cityObjs[source].city_id,
                                   reg.cityObjs[destination].city_id, weight),
                          cs, i, j + 1)

\* mutant: the graph holds only the cities that have an edge
plot_graph_for_vehicle_EdgesOnly(reg, vehicle) ==
    AddEdges(reg, vehicle, EmptyGraph, DictValues(reg.cities), 1, 2)

plot_graph_for_vehicle(reg, vehicle) ==
    LET cs == DictValues(reg.cities)
    IN AddEdges(reg, vehicle, AddNodes(reg, EmptyGraph, cs, 1), cs, 1, 2)

\* a Python bool used as a number
int(b) == IF b THEN 1 ELSE 0

\* heap order of networkx's fringe: (distance, insertion count, node)
FringeMin(fringe) ==
    CHOOSE e \in fringe : \A f \in fringe :
        e.d < f.d \/ (e.d = f.d /\ e.c <= f.c)

RECURSIVE Relax(_, _, _, _)
\* the loop over the neighbours of v in networkx's _dijkstra_multisource
Relax(st, v, nbrs, k) ==
    IF k > Len(nbrs) THEN st
    ELSE
      LET u == nbrs[k].key
          cost == int(nbrs[k].val)
          vu_dist == DictGet(st.dist, v) + cost
          next ==
            IF u \in DictKeys(st.dist)
            THEN IF vu_dist < DictGet(st.dist, u)
                 THEN [st EXCEPT !.error = TRUE]
                 ELSE st
            ELSE IF u \notin DictKeys(st.seen) \/ vu_dist < DictGet(st.seen, u)
            THEN [st EXCEPT
                    !.seen = DictSet(@, u, vu_dist),
                    !.fringe = @ \cup {[d |-> vu_dist, c |-> st.count, v |-> u]},
                    !.count = @ + 1,
                    !.paths = DictSet(@, u, Append(DictGet(st.paths, v), u))]
            ELSE st
      IN Relax(next, v, nbrs, k + 1)

RECURSIVE DijkstraLoop(_, _, _)
\* the main loop of _dijkstra_multisource with one source and a target
DijkstraLoop(graph, st, target) ==
    IF st.fringe = {} \/ st.error THEN st
    ELSE
      LET e == FringeMin(st.fringe)
          popped == [st EXCEPT !.fringe = @ \ {e}]
      IN IF e.v \in DictKeys(st.dist) THEN DijkstraLoop(graph, popped, target)
         ELSE LET final == [popped EXCEPT !.dist = DictSet(@, e.v, e.d)]
              IN IF e.v = target THEN final
                 ELSE DijkstraLoop(graph,
                                   Relax(final, e.v, DictGet(graph, e.v), 1),
                                   target)

\* networkx.dijkstra_path(graph, source, target) with the default weight key
dijkstra_path(graph, source, target) ==
    IF source \notin DictKeys(graph) THEN Raised("NodeNotFound")
    ELSE IF target = source THEN Returned(<<target>>)
    ELSE
      LET st0 == [fringe |-> {[d |-> 0, c |-> 0, v |-> source]},
                  seen |-> <<[key |-> source, val |-> 0]>>,
                  dist |-> <<>>,
                  paths |-> <<[key |-> source, val |-> <<source>>]>>,
                  count |-> 1,
                  error |-> FALSE]
          st == DijkstraLoop(graph, st0, target)
      IN IF st.error THEN Raised("ValueError")
         ELSE IF target \in DictKeys(st.dist)
         THEN Returned(DictGet(st.paths, target))
         ELSE Raised("NetworkXNoPath")

RECURSIVE AppendCities(_, _, _, _)
\* for city_id in path[1:]: trip.add_next_city(City.cities[city_id])
AppendCities(reg, seq, path, k) ==
    IF k > Len(path) THEN seq
    ELSE AppendCities(reg, add_next_city(seq, DictGet(reg.cities, path[k])),
                      path, k + 1)

\* mutant: the whole path is appended after the departure
find_shortest_path_WholePath(reg, vehicle, from_city, to_city) ==
    LET graph == plot_graph_for_vehicle(reg, vehicle)
        path == dijkstra_path(graph, reg.cityObjs[from_city].city_id,
                              reg.cityObjs[to_city].city_id)
    IN IF path.kind = "return"
       THEN Returned([sequence |->
                AppendCities(reg, Trip__init__(from_city), path.value, 1)])
       ELSE IF path.exc = "NetworkXNoPath" THEN Returned(None)
       ELSE path

\* find_shortest_path: a Trip, None, or an exception that is not caught
find_shortest_path(reg, vehicle, from_city, to_city) ==
    LET graph == plot_graph_for_vehicle(reg, vehicle)
        path == dijkstra_path(graph, reg.cityObjs[from_city].city_id,
                              reg.cityObjs[to_city].city_id)
    IN IF path.kind = "return"
       THEN Returned([sequence |->
                AppendCities(reg, Trip__init__(from_city), path.value, 2)])
       ELSE IF path.exc = "NetworkXNoPath" THEN Returned(None)
       ELSE path

----------------------------------------------------------------------------
(* onboard_navigation.py : NavigationSystem *)

\* a reference to a NavigationSystem object
SystemRef(n) == [kind |-> "NavigationSystem", ref |-> n]

\* the class attribute and the objects, as one value
System == [instance |-> instance, systemObjs |-> systemObjs]

\* mutant: the constructor does not look for an instance
NavigationSystem__init___NoCheck(sys) ==
    LET self == Len(sys.systemObjs) + 1
    IN [sys |-> [instance |-> SystemRef(self),
                 systemObjs |-> Append(sys.systemObjs,
                                       [vehicles |-> <<>>, trips |-> <<>>])],
        outcome |-> Returned(None)]

\* NavigationSystem(): raises when an instance is stored, else stores the
\* new object and gives it two empty lists
NavigationSystem__init__(sys) ==
    IF sys.instance # None
    THEN [sys |-> sys, outcome |-> Raised("Exception")]
    ELSE LET self == Len(sys.systemObjs) + 1
         IN [sys |-> [instance |-> SystemRef(self),
                      systemObjs |-> Append(sys.systemObjs,
                                            [vehicles |-> <<>>, trips |-> <<>>])],
             outcome |-> Returned(None)]

\* NavigationSystem.get_instance()
get_instance(sys) ==
    IF sys.instance = None
    THEN LET made == NavigationSystem__init__(sys)
         IN IF made.outcome.kind = "raise" THEN made
            ELSE [sys |-> made.sys, outcome |-> Returned(made.sys.instance)]
    ELSE [sys |-> sys, outcome |-> Returned(sys.instance)]

\* NavigationSystem.get_instance().vehicles.append(vehicle)
AppendVehicle(sys, vehicle) ==
    LET got == get_instance(sys)
        self == got.outcome.value.ref
    IN [got.sys EXCEPT !.systemObjs[self].vehicles = Append(@, vehicle)]

\* system = NavigationSystem.get_instance(); system.trips.append(trip)
AppendTrip(sys, trip) ==
    LET got == get_instance(sys)
        self == got.outcome.value.ref
    IN [got.sys EXCEPT !.systemObjs[self].trips = Append(@, trip)]

----------------------------------------------------------------------------
(* onboard_navigation.py : the add-vehicle wizard *)

\* a line typed by the user that int() reads as n
Typed(n) == [integer |-> TRUE, value |-> n]

\* a line typed by the user that int() cannot read
Garbage == [integer |-> FALSE, text |-> "fast"]

\* int(raw) of a line that int() can read
parse_int(raw) == raw.value

\* mutant: zero passes the validation
validate_positive_integer_NonNegative(raw) ==
    IF ~raw.integer
    THEN [valid |-> FALSE, message |-> "Please enter an integer"]
    ELSE IF ~(parse_int(raw) >= 0)
    THEN [valid |-> FALSE, message |-> "Please enter a non-zero positive integer."]
    ELSE [valid |-> TRUE, message |-> ""]

\* AddVehicleAttributeMenu.validate_positive_integer
validate_positive_integer(raw) ==
    IF ~raw.integer
    THEN [valid |-> FALSE, message |-> "Please enter an integer"]
    ELSE IF ~(parse_int(raw) > 0)
    THEN [valid |-> FALSE, message |-> "Please enter a non-zero positive integer."]
    ELSE [valid |-> TRUE, message |-> ""]

\* AddVehicleAttributeMenu.vehicle_parameters
vehicle_parameters(vehicle_type) ==
    CASE vehicle_type = "CrappyCrepeCar" -> <<"speed">>
      [] vehicle_type = "DiplomacyDonutDinghy" -> <<"speed_internal", "speed_external">>
      [] vehicle_type = "TeleportingTarteTrolley" -> <<"timeout", "distance_limit">>

\* the vehicle the wizard creates from the parameters entered
CreateVehicle(vehicle_type, parameters) ==
    CASE vehicle_type = "CrappyCrepeCar" ->
            CrappyCrepeCar(DictGet(parameters, "speed"))
      [] vehicle_type = "DiplomacyDonutDinghy" ->
            DiplomacyDonutDinghy(DictGet(parameters, "speed_internal"),
                                 DictGet(parameters, "speed_external"))
      [] OTHER ->
            TeleportingTarteTrolley(DictGet(parameters, "timeout"),
                                    DictGet(parameters, "distance_limit"))

\* AddVehicleAttributeMenu(vehicle_type) as execute() starts: nothing
\* entered, no error shown, no input box open
AddVehicleAttributeMenu(vehicle_type) ==
    [menu |-> "AddVehicleAttributeMenu", vehicle_type |-> vehicle_type,
     parameters |-> <<>>, input_err |-> "", box |-> None]

----------------------------------------------------------------------------
(* onboard_navigation.py : the last step of the add-trip wizard *)

\* trip[i]: class Trip defines no __getitem__, so subscripting a Trip
\* raises TypeError
Trip__getitem__(seq, i) == Raised("TypeError")

\* the part of AddTripConfirmTripMenu.execute before the menu is shown,
\* when it is not interrupted: the trip to show, a warning that the
\* vehicle is not capable of the trip, or an exception
GenerateTrip(reg, trip, trip_type, vehicle) ==
    IF trip_type = "automatic"
    THEN LET from_city == Trip__getitem__(trip, 0)
             to_city == Trip__getitem__(trip, 1)
         IN IF from_city.kind = "raise" THEN from_city
            ELSE IF to_city.kind = "raise" THEN to_city
            ELSE LET calculated_trip ==
                         find_shortest_path(reg, vehicle, from_city.value, to_city.value)
                 IN IF calculated_trip.kind = "raise" THEN calculated_trip
                    ELSE IF calculated_trip.value = None THEN [kind |-> "warning"]
                    ELSE [kind |-> "trip", sequence |-> calculated_trip.value.sequence]
    ELSE [kind |-> "trip", sequence |-> trip]

\* AddTripConfirmTripMenu once the trip is shown with its travel time
AddTripConfirmTripMenu(given, trip, trip_type, vehicle, trip_time) ==
    [menu |-> "AddTripConfirmTripMenu", given |-> given, trip |-> trip,
     trip_type |-> trip_type, vehicle |-> vehicle, trip_time |-> trip_time]

----------------------------------------------------------------------------
(* Inputs *)

\* latitudes, in whole degrees, of the cities of a generated file:
\* distances 0, 111, 222 and 334 km
Lats == {0, 1, 3}

CountryNames == {"X", "Y"}

\* the capital column of a record: "" is what most rows of the file carry
RawCapitals == {"primary", ""}

Iso3Of(country) == IF country = "X" THEN "xxx" ELSE "yyy"

\* the latitudes at which cities of every country and capital type lie
NearLats == {0, 1}

\* the rows of a generated file: every country and capital type at the near
\* latitudes, and a plain city of X at every latitude
RowAttrs ==
    [lat : NearLats, country : CountryNames, capital : RawCapitals]
    \cup [lat : Lats, country : {"X"}, capital : {""}]

\* a parsed file: row i has identifier i
FileOf(rows) ==
    [i \in 1..Len(rows) |->
        [city_ascii |-> "city", lat |-> Num(rows[i].lat), lng |-> Num(0),
         country |-> rows[i].country, iso3 |-> Iso3Of(rows[i].country),
         capital |-> rows[i].capital, id |-> i]]

\* every file of 1..n rows
CSVFiles(n) == UNION {{FileOf(rows) : rows \in [1..k -> RowAttrs]} : k \in 1..n}

\* the cities of create_example_countries_and_cities, moved onto one
\* meridian at the whole degree nearest to their latitude
ExampleFile ==
    <<[city_ascii |-> "Melbourne", lat |-> Num(-38), lng |-> Num(0),
       country |-> "Australia", iso3 |-> "AUS", capital |-> "admin", id |-> 1],
      [city_ascii |-> "Canberra", lat |-> Num(-35), lng |-> Num(0),
       country |-> "Australia", iso3 |-> "AUS", capital |-> "primary", id |-> 2],
      [city_ascii |-> "Sydney", lat |-> Num(-34), lng |-> Num(0),
       country |-> "Australia", iso3 |-> "AUS", capital |-> "admin", id |-> 3],
      [city_ascii |-> "Tokyo", lat |-> Num(36), lng |-> Num(0),
       country |-> "Japan", iso3 |-> "JPN", capital |-> "primary", id |-> 4]>>

\* vehicle parameters are positive integers: the add-vehicle wizard takes
\* nothing else, and the example vehicles are CrappyCrepeCar(200),
\* DiplomacyDonutDinghy(100, 500) and TeleportingTarteTrolley(3, 2000)
Speeds == {1, 2, 100}

Times == {1, 3}

Ranges == {111, 112, 223}

Vehicles ==
    {CrappyCrepeCar(s) : s \in Speeds}
    \cup {DiplomacyDonutDinghy(s, t) : s \in Speeds, t \in Speeds}
    \cup {TeleportingTarteTrolley(t, m) : t \in Times, m \in Ranges}

\* the vehicles routed: a slow car, a dinghy faster at home than abroad, and
\* a trolley reaching two degrees but not three
PathVehicles ==
    {CrappyCrepeCar(1), DiplomacyDonutDinghy(3, 1), TeleportingTarteTrolley(1, 223)}

\* the example vehicles and a second trolley that ties with the car
TripVehicles ==
    {CrappyCrepeCar(200), DiplomacyDonutDinghy(100, 500),
     TeleportingTarteTrolley(3, 2000), TeleportingTarteTrolley(2, 2000)}

VehicleLists == UNION {[1..k -> TripVehicles] : k \in 0..MaxVehicles}

\* the City objects created so far
CityRefs == 1..Len(cityObjs)

----------------------------------------------------------------------------
(* State machine *)

\* the registry is the one a run of the reader over one of the files leaves
Loaded(files) ==
    \E reg \in {create_cities_countries_from_CSV(file) : file \in files} :
        /\ countries = reg.countries
        /\ cities = reg.cities
        /\ countryObjs = reg.countryObjs
        /\ cityObjs = reg.cityObjs

\* no UI element is being executed
Closed == [menu |-> "none"]

Idle ==
    /\ instance = None
    /\ systemObjs = <<>>
    /\ ui = Closed
    /\ vehicleObjs = <<>>
    /\ sequence = <<>>
    /\ calls = <<>>
    /\ op = NoCall
    /\ result = None

RegistryUnchanged == UNCHANGED <<countries, cities, countryObjs, cityObjs>>

UIUnchanged == UNCHANGED <<instance, systemObjs, ui>>

\* vehicle.compute_travel_time(departure, arrival)
ComputeTravelTime(vehicle, departure, arrival) ==
    /\ op = NoCall
    /\ op' = [name |-> "compute_travel_time", vehicle |-> vehicle,
              departure |-> departure, arrival |-> arrival]
    /\ result' = compute_travel_time_outcome(Registry, vehicle, departure, arrival)
    /\ UNCHANGED <<vehicleObjs, sequence, calls>>
    /\ UIUnchanged
    /\ RegistryUnchanged

\* self.distance(other_city)
Distance(self, other_city) ==
    /\ op = NoCall
    /\ op' = [name |-> "distance", self |-> self, other_city |-> other_city]
    /\ result' = Returned(distance(Registry, self, other_city))
    /\ UNCHANGED <<vehicleObjs, sequence, calls>>
    /\ UIUnchanged
    /\ RegistryUnchanged

\* trip = Trip(departure)
NewTrip(departure) ==
    /\ op = NoCall
    /\ sequence' = Trip__init__(departure)
    /\ calls' = <<departure>>
    /\ UNCHANGED <<vehicleObjs, op, result>>
    /\ UIUnchanged
    /\ RegistryUnchanged

\* trip.add_next_city(city)
AddNextCity(city) ==
    /\ op = NoCall
    /\ sequence # <<>>
    /\ Len(sequence) < MaxTripLen
    /\ sequence' = add_next_city(sequence, city)
    /\ calls' = Append(calls, city)
    /\ UNCHANGED <<vehicleObjs, op, result>>
    /\ UIUnchanged
    /\ RegistryUnchanged

\* trip.total_travel_time(vehicle)
TotalTravelTime(vehicle) ==
    /\ op = NoCall
    /\ sequence # <<>>
    /\ op' = [name |-> "total_travel_time", vehicle |-> vehicle]
    /\ result' = Returned(total_travel_time(Registry, sequence, vehicle))
    /\ UNCHANGED <<vehicleObjs, sequence, calls>>
    /\ UIUnchanged
    /\ RegistryUnchanged

\* trip.find_fastest_vehicle(vehicles)
FindFastestVehicle(vehicles) ==
    /\ op = NoCall
    /\ sequence # <<>>
    /\ op' = [name |-> "find_fastest_vehicle", vehicles |-> vehicles]
    /\ result' = find_fastest_vehicle(Registry, sequence, vehicles)
    /\ UNCHANGED <<vehicleObjs, sequence, calls>>
    /\ UIUnchanged
    /\ RegistryUnchanged

\* plot_graph_for_vehicle(vehicle)
PlotGraphForVehicle(vehicle) ==
    /\ op = NoCall
    /\ op' = [name |-> "plot_graph_for_vehicle", vehicle |-> vehicle]
    /\ result' = Returned(plot_graph_for_vehicle(Registry, vehicle))
    /\ UNCHANGED <<vehicleObjs, sequence, calls>>
    /\ UIUnchanged
    /\ RegistryUnchanged

\* find_shortest_path(vehicle, from_city, to_city)
FindShortestPath(vehicle, from_city, to_city) ==
    /\ op = NoCall
    /\ op' = [name |-> "find_shortest_path", vehicle |-> vehicle,
              from_city |-> from_city, to_city |-> to_city]
    /\ result' = find_shortest_path(Registry, vehicle, from_city, to_city)
    /\ UNCHANGED <<vehicleObjs, sequence, calls>>
    /\ UIUnchanged
    /\ RegistryUnchanged

\* the caller takes the value returned; the next call can be made
Return ==
    /\ op # NoCall
    /\ op' = NoCall
    /\ result' = None
    /\ UNCHANGED <<vehicleObjs, sequence, calls>>
    /\ UIUnchanged
    /\ RegistryUnchanged

\* single legs, over every file of at most PairCities rows
InitVehicle == Loaded(CSVFiles(PairCities)) /\ Idle

NextVehicle ==
    \/ \E vehicle \in Vehicles, departure \in CityRefs, arrival \in CityRefs :
           ComputeTravelTime(vehicle, departure, arrival)
    \/ \E self \in CityRefs, other_city \in CityRefs : Distance(self, other_city)
    \/ Return

SpecVehicle == InitVehicle /\ [][NextVehicle]_vars

\* trips over the example cities
InitTrip == Loaded({ExampleFile}) /\ Idle

NextTrip ==
    \/ \E departure \in CityRefs : NewTrip(departure)
    \/ \E city \in CityRefs : AddNextCity(city)
    \/ \E vehicle \in TripVehicles : TotalTravelTime(vehicle)
    \/ \E vehicles \in VehicleLists : FindFastestVehicle(vehicles)
    \/ Return

SpecTrip == InitTrip /\ [][NextTrip]_vars

\* routing, over every file of at most MaxCities rows
InitPath == Loaded(CSVFiles(MaxCities)) /\ Idle

NextPath ==
    \/ \E vehicle \in PathVehicles : PlotGraphForVehicle(vehicle)
    \/ \E vehicle \in PathVehicles, from_city \in CityRefs, to_city \in CityRefs :
           FindShortestPath(vehicle, from_city, to_city)
    \/ Return

SpecPath == InitPath /\ [][NextPath]_vars

\* the registry becomes reg
SetRegistry(reg) ==
    /\ countries' = reg.countries
    /\ cities' = reg.cities
    /\ countryObjs' = reg.countryObjs
    /\ cityObjs' = reg.cityObjs

\* the ISO codes handed to Country(...), in lower case
Iso3s == {"xxx", "yyy"}

\* the attributes of the cities registered by hand: two cities of one name,
\* two of one identifier, and a capital type outside CapitalType
CityRows ==
    { [name |-> "a", latitude |-> Num(0), longitude |-> Num(0),
       capital_type |-> "primary", city_id |-> 1],
      [name |-> "a", latitude |-> Num(1), longitude |-> Num(0),
       capital_type |-> "admin", city_id |-> 2],
      [name |-> "b", latitude |-> Num(1), longitude |-> Num(0),
       capital_type |-> "capital", city_id |-> 1],
      [name |-> "a", latitude |-> NotANumber, longitude |-> Num(0),
       capital_type |-> "primary", city_id |-> 2],
      [name |-> "b", latitude |-> Num(0), longitude |-> NotANumber,
       capital_type |-> "minor", city_id |-> 1] }

\* the city names looked up
CityNames == {"a", "b", "c"}

\* the capital_types arguments of get_cities
CapitalTypeFilters ==
    {None, List(<<>>), List(<<"primary">>), List(<<"unspecified", "admin">>)}

CountryRefs == 1..Len(countryObjs)

\* Country(name, iso3)
NewCountry(name, iso3) ==
    /\ op = NoCall
    /\ Len(countryObjs) < MaxCountryObjs
    /\ op' = [name |-> "Country", country |-> name, iso3 |-> iso3]
    /\ SetRegistry(Country__init__(Registry, name, iso3))
    /\ result' = Returned(None)
    /\ UNCHANGED <<vehicleObjs, sequence, calls>>
    /\ UIUnchanged

\* City(name, latitude, longitude, country, capital_type, city_id)
NewCity(row, country) ==
    /\ op = NoCall
    /\ Len(cityObjs) < MaxCityObjs
    /\ op' = [name |-> "City", row |-> row, country |-> country]
    /\ \E out \in {City__init__(Registry, row.name, row.latitude, row.longitude,
                                 country, row.capital_type, row.city_id)} :
           /\ SetRegistry(out.reg)
           /\ result' = out.outcome
    /\ UNCHANGED <<vehicleObjs, sequence, calls>>
    /\ UIUnchanged

\* country.get_cities(capital_types)
GetCities(country, capital_types) ==
    /\ op = NoCall
    /\ op' = [name |-> "get_cities", country |-> country,
              capital_types |-> capital_types]
    /\ result' = Returned(get_cities(Registry, country, capital_types))
    /\ UNCHANGED <<vehicleObjs, sequence, calls>>
    /\ UIUnchanged
    /\ RegistryUnchanged

\* country.get_city(city_name)
GetCity(country, city_name) ==
    /\ op = NoCall
    /\ op' = [name |-> "get_city", country |-> country, city_name |-> city_name]
    /\ result' = Returned(get_city(Registry, country, city_name))
    /\ UNCHANGED <<vehicleObjs, sequence, calls>>
    /\ UIUnchanged
    /\ RegistryUnchanged

\* countries and cities registered by hand, from the empty registry
InitGeo == Loaded({<<>>}) /\ Idle

NextGeo ==
    \/ \E name \in CountryNames, iso3 \in Iso3s : NewCountry(name, iso3)
    \/ \E row \in CityRows, country \in CountryNames : NewCity(row, country)
    \/ \E country \in CountryRefs, capital_types \in CapitalTypeFilters :
           GetCities(country, capital_types)
    \/ \E country \in CountryRefs, city_name \in CityNames :
           GetCity(country, city_name)
    \/ Return

SpecGeo == InitGeo /\ [][NextGeo]_vars

\* the numbers handed to the constructors of the vehicles
Parameters == {-1, 0, 1, 200}

\* the vehicles the three constructors are called for
NewVehicles ==
    {CrappyCrepeCar(speed) : speed \in Parameters}
    \cup {DiplomacyDonutDinghy(s[1], s[2]) : s \in Parameters \X Parameters}
    \cup {TeleportingTarteTrolley(s[1], s[2]) : s \in Parameters \X Parameters}

VehicleRefs == 1..Len(vehicleObjs)

\* vehicle = CrappyCrepeCar(speed), DiplomacyDonutDinghy(in_country_speed,
\* between_primary_speed) or TeleportingTarteTrolley(travel_time,
\* max_distance): the constructor stores what it is given
NewVehicle(vehicle) ==
    /\ op = NoCall
    /\ Len(vehicleObjs) < MaxVehicleObjs
    /\ op' = [name |-> "Vehicle", vehicle |-> vehicle]
    /\ vehicleObjs' = Append(vehicleObjs, vehicle)
    /\ result' = Returned(Len(vehicleObjs) + 1)
    /\ UNCHANGED <<sequence, calls>>
    /\ UIUnchanged
    /\ RegistryUnchanged

\* vehicles of any parameters, and their legs between the example cities
InitConstruct == Loaded({ExampleFile}) /\ Idle

NextConstruct ==
    \/ \E vehicle \in NewVehicles : NewVehicle(vehicle)
    \/ \E v \in VehicleRefs, departure \in CityRefs, arrival \in CityRefs :
           ComputeTravelTime(vehicleObjs[v], departure, arrival)
    \/ Return

SpecConstruct == InitConstruct /\ [][NextConstruct]_vars

\* the class attribute and the objects become sys
SetSystem(sys) ==
    /\ instance' = sys.instance
    /\ systemObjs' = sys.systemObjs

\* the lists of the stored instance (empty while there is none)
SystemVehicles == IF instance = None THEN <<>> ELSE systemObjs[instance.ref].vehicles

SystemTrips == IF instance = None THEN <<>> ELSE systemObjs[instance.ref].trips

\* NavigationSystem.get_instance()
GetInstance ==
    /\ op = NoCall
    /\ ui = Closed
    /\ op' = [name |-> "get_instance"]
    /\ \E got \in {get_instance(System)} :
           /\ SetSystem(got.sys)
           /\ result' = got.outcome
    /\ UNCHANGED <<vehicleObjs, sequence, calls, ui>>
    /\ RegistryUnchanged

\* NavigationSystem()
NewNavigationSystem ==
    /\ op = NoCall
    /\ ui = Closed
    /\ Len(systemObjs) < MaxSystemObjs
    /\ op' = [name |-> "NavigationSystem"]
    /\ \E made \in {NavigationSystem__init__(System)} :
           /\ SetSystem(made.sys)
           /\ result' = made.outcome
    /\ UNCHANGED <<vehicleObjs, sequence, calls, ui>>
    /\ RegistryUnchanged

\* the vehicle types of the wizard
VehicleTypes == {"CrappyCrepeCar", "DiplomacyDonutDinghy", "TeleportingTarteTrolley"}

\* the lines typed into the input box of a parameter
RawValues == {Typed(-1), Typed(0), Typed(1), Typed(200), Garbage}

\* how the user leaves a menu without confirming
Leaves == {"back", "ctrl-c"}

InAddVehicle == ui.menu = "AddVehicleAttributeMenu"

\* AddVehicleAttributeMenu(vehicle_type).execute() starts
AddVehicleOpen(vehicle_type) ==
    /\ op = NoCall
    /\ ui = Closed
    /\ ui' = AddVehicleAttributeMenu(vehicle_type)
    /\ UNCHANGED <<vehicleObjs, sequence, calls, instance, systemObjs, op, result>>
    /\ RegistryUnchanged

\* the user selects a parameter: its input box opens
AddVehicleChoose(option) ==
    /\ InAddVehicle
    /\ ui.box = None
    /\ option \in 1..Len(vehicle_parameters(ui.vehicle_type))
    /\ ui' = [ui EXCEPT !.box = [option |-> option, input_err |-> ""]]
    /\ UNCHANGED <<vehicleObjs, sequence, calls, instance, systemObjs, op, result>>
    /\ RegistryUnchanged

\* the user types a line into the input box: a valid one is stored under
\* the parameter and marks it specified, another one shows an error
BoxEnter(raw) ==
    /\ InAddVehicle
    /\ ui.box # None
    /\ LET checked == validate_positive_integer(raw)
           name == vehicle_parameters(ui.vehicle_type)[ui.box.option]
       IN IF checked.valid
          THEN ui' = [ui EXCEPT !.parameters = DictSet(@, name, parse_int(raw)),
                                !.box = None]
          ELSE ui' = [ui EXCEPT !.box.input_err = checked.message]
    /\ UNCHANGED <<vehicleObjs, sequence, calls, instance, systemObjs, op, result>>
    /\ RegistryUnchanged

\* Ctrl-C in the input box: nothing is stored
BoxCancel ==
    /\ InAddVehicle
    /\ ui.box # None
    /\ ui' = [ui EXCEPT !.box = None]
    /\ UNCHANGED <<vehicleObjs, sequence, calls, instance, systemObjs, op, result>>
    /\ RegistryUnchanged

\* the user selects Confirm: with a parameter missing an error is shown,
\* else the vehicle is created and appended and execute() returns True
AddVehicleConfirm ==
    /\ InAddVehicle
    /\ ui.box = None
    /\ IF Len(ui.parameters) # Len(vehicle_parameters(ui.vehicle_type))
       THEN /\ ui' = [ui EXCEPT !.input_err =
                        "Please make sure all unspecified parameters are specified before confirming"]
            /\ ui'.input_err # ui.input_err
            /\ UNCHANGED <<instance, systemObjs, op, result>>
       ELSE /\ Len(SystemVehicles) < MaxSystemVehicles
            /\ SetSystem(AppendVehicle(System,
                    CreateVehicle(ui.vehicle_type, ui.parameters)))
            /\ op' = [name |-> "AddVehicleAttributeMenu.execute",
                      vehicle_type |-> ui.vehicle_type, option |-> "confirm"]
            /\ result' = Returned(TRUE)
            /\ ui' = Closed
    /\ UNCHANGED <<vehicleObjs, sequence, calls>>
    /\ RegistryUnchanged

\* the user selects Go back or presses Ctrl-C: execute() returns False
AddVehicleLeave(how) ==
    /\ InAddVehicle
    /\ ui.box = None
    /\ op' = [name |-> "AddVehicleAttributeMenu.execute",
              vehicle_type |-> ui.vehicle_type, option |-> how]
    /\ result' = Returned(FALSE)
    /\ ui' = Closed
    /\ UNCHANGED <<vehicleObjs, sequence, calls, instance, systemObjs>>
    /\ RegistryUnchanged

\* the trips handed to the last step of the add-trip wizard, as the
\* two earlier steps build them from the cities selected
WizardTrips == {<<1, 1>>, <<2, 3>>, <<1, 4>>, <<1, 3, 2>>}

TripTypes == {"automatic", "manual"}

InConfirmTrip == ui.menu = "AddTripConfirmTripMenu"

\* the call of AddTripConfirmTripMenu(trip, trip_type, vehicle).execute()
ConfirmTripCall(given, trip_type, vehicle, option) ==
    [name |-> "AddTripConfirmTripMenu.execute", trip |-> given,
     trip_type |-> trip_type, vehicle |-> vehicle, option |-> option]

\* AddTripConfirmTripMenu(trip, trip_type, vehicle).execute() starts, for
\* the vehicle selected in the step before: the trip is generated (Ctrl-C
\* meanwhile returns False) and shown with its travel time
ConfirmTripOpen(trip, trip_type, v, interrupted) ==
    /\ op = NoCall
    /\ ui = Closed
    /\ v \in 1..Len(SystemVehicles)
    /\ trip_type = "automatic" => Len(trip) = 2
    /\ LET vehicle == SystemVehicles[v]
           generated == GenerateTrip(Registry, trip, trip_type, vehicle)
       IN IF interrupted
          THEN /\ op' = ConfirmTripCall(trip, trip_type, vehicle, "ctrl-c")
               /\ result' = Returned(FALSE)
               /\ ui' = Closed
          ELSE IF generated.kind = "raise"
          THEN /\ op' = ConfirmTripCall(trip, trip_type, vehicle, "none")
               /\ result' = generated
               /\ ui' = Closed
          ELSE IF generated.kind = "warning"
          THEN /\ op' = ConfirmTripCall(trip, trip_type, vehicle, "none")
               /\ result' = Returned(FALSE)
               /\ ui' = Closed
          ELSE /\ ui' = AddTripConfirmTripMenu(trip, generated.sequence, trip_type,
                            vehicle,
                            total_travel_time(Registry, generated.sequence, vehicle))
               /\ UNCHANGED <<op, result>>
    /\ UNCHANGED <<vehicleObjs, sequence, calls, instance, systemObjs>>
    /\ RegistryUnchanged

\* the user selects Confirm: the trip is saved, execute() returns True
ConfirmTripSave ==
    /\ InConfirmTrip
    /\ Len(SystemTrips) < MaxSystemTrips
    /\ SetSystem(AppendTrip(System, ui.trip))
    /\ op' = ConfirmTripCall(ui.given, ui.trip_type, ui.vehicle, "confirm")
    /\ result' = Returned(TRUE)
    /\ ui' = Closed
    /\ UNCHANGED <<vehicleObjs, sequence, calls>>
    /\ RegistryUnchanged

\* the user selects Go back or presses Ctrl-C: execute() returns False
ConfirmTripLeave(how) ==
    /\ InConfirmTrip
    /\ op' = ConfirmTripCall(ui.given, ui.trip_type, ui.vehicle, how)
    /\ result' = Returned(FALSE)
    /\ ui' = Closed
    /\ UNCHANGED <<vehicleObjs, sequence, calls, instance, systemObjs>>
    /\ RegistryUnchanged

\* the singleton and the two wizards, over the example cities
InitUI == Loaded({ExampleFile}) /\ Idle

NextUI ==
    \/ GetInstance
    \/ NewNavigationSystem
    \/ \E vehicle_type \in VehicleTypes : AddVehicleOpen(vehicle_type)
    \/ \E option \in 1..2 : AddVehicleChoose(option)
    \/ \E raw \in RawValues : BoxEnter(raw)
    \/ BoxCancel
    \/ AddVehicleConfirm
    \/ \E how \in Leaves : AddVehicleLeave(how)
    \/ \E trip \in WizardTrips, trip_type \in TripTypes, v \in 1..MaxSystemVehicles,
          interrupted \in BOOLEAN : ConfirmTripOpen(trip, trip_type, v, interrupted)
    \/ ConfirmTripSave
    \/ \E how \in Leaves : ConfirmTripLeave(how)
    \/ Return

SpecUI == InitUI /\ [][NextUI]_vars

----------------------------------------------------------------------------
(* Routing claims *)

\* the cities registered under an identifier, in registry order
Registered == {cities[i].val : i \in 1..Len(cities)}

\* a leg the vehicle can make
Possible(vehicle, a, b) == compute_travel_time(Registry, vehicle, a, b) < inf

\* least element of a non-empty set of numbers
Least(S) == CHOOSE m \in S : \A x \in S : m <= x

RECURSIVE MinTimeWithin(_, _, _, _)
\* least total travel time from city a to city b over the paths of at most
\* k legs of the vehicle's induced graph (inf: there is none)
MinTimeWithin(vehicle, a, b, k) ==
    IF k = 0 THEN (IF a = b THEN 0 ELSE inf)
    ELSE Least({MinTimeWithin(vehicle, a, b, k - 1)} \cup
               {LET t == MinTimeWithin(vehicle, a, c, k - 1)
                IN IF t < inf THEN t + compute_travel_time(Registry, vehicle, c, b)
                   ELSE inf :
                    c \in {x \in Registered : x # b /\ Possible(vehicle, x, b)}})

\* least total travel time over all paths from a to b
MinPathTime(vehicle, a, b) ==
    MinTimeWithin(vehicle, a, b, Cardinality(Registered) - 1)

RECURSIVE Component(_, _)
\* the registered cities that chains of possible legs join to those of S
Component(vehicle, S) ==
    LET T == S \cup {c \in Registered : \E x \in S : Possible(vehicle, x, c)}
    IN IF T = S THEN S ELSE Component(vehicle, T)

\* a and b lie in one connected component of the induced graph
Connected(vehicle, a, b) == b \in Component(vehicle, {a})

IsFindShortestPath == op.name = "find_shortest_path"

ReturnedTrip == result.kind = "return" /\ result.value # None

\* C1: whenever find_shortest_path returns a Trip between two registered
\* cities, the trip's total_travel_time for the vehicle is the least total
\* travel time over all paths between them in the vehicle's induced graph.
C1_ShortestPathIsMinimal ==
    (IsFindShortestPath /\ ReturnedTrip) =>
        total_travel_time(Registry, result.value.sequence, op.vehicle)
            = MinPathTime(op.vehicle, op.from_city, op.to_city)

\* C2: find_shortest_path returns None, as a value, exactly when the two
\* cities lie in different connected components of the induced graph, and
\* returns a Trip from the one to the other in every other case.
C2_NoneIffDisconnected ==
    IsFindShortestPath =>
        /\ result.kind = "return"
        /\ (result.value = None)
              <=> ~Connected(op.vehicle, op.from_city, op.to_city)
        /\ result.value # None =>
              /\ Head(result.value.sequence) = op.from_city
              /\ result.value.sequence[Len(result.value.sequence)] = op.to_city

\* None returned for two cities that a chain of possible legs does not join,
\* in a registry where the departure has a possible leg to a third city
C2_Witness ==
    /\ IsFindShortestPath
    /\ result = Returned(None)
    /\ \E c \in Registered : c # op.from_city /\ Possible(op.vehicle, op.from_city, c)

IsPlotGraph == op.name = "plot_graph_for_vehicle"

HasEdge(graph, u, v) == u \in DictKeys(graph) /\ v \in DictKeys(DictGet(graph, u))

\* C3: the graph built for a vehicle joins two distinct registered cities
\* exactly when the vehicle's travel time between them is finite, and the
\* weight stored on the edge is that travel time.
C3_EdgesCarryTravelTime ==
    IsPlotGraph =>
        \A a \in Registered, b \in Registered :
            a # b =>
                LET u == cityObjs[a].city_id
                    v == cityObjs[b].city_id
                    g == result.value
                IN /\ HasEdge(g, u, v) <=> Possible(op.vehicle, a, b)
                   /\ HasEdge(g, u, v) =>
                        int(DictGet(DictGet(g, u), v))
                            = compute_travel_time(Registry, op.vehicle, a, b)

----------------------------------------------------------------------------
(* Trip claims *)

IsFindFastestVehicle == op.name = "find_fastest_vehicle"

\* what the trip takes with the i-th vehicle of the list given
TimeWith(i) == total_travel_time(Registry, sequence, op.vehicles[i])

Candidates == 1..Len(op.vehicles)

\* C4: when the trip is impossible for every vehicle of a list of at least
\* one, find_fastest_vehicle returns (None, inf) and none of the vehicles.
C4_AllInfiniteGivesNone ==
    (/\ IsFindFastestVehicle
     /\ Candidates # {}
     /\ \A i \in Candidates : TimeWith(i) = inf) =>
        /\ result.kind = "return"
        /\ result.value.vehicle = None
        /\ result.value.time = inf

\* C5: when the trip is possible for a vehicle of the list,
\* find_fastest_vehicle returns (v, t) with t the least total_travel_time
\* over the list, t the total_travel_time of v, and v the first vehicle of
\* the list that takes t.
C5_FirstFastest ==
    (IsFindFastestVehicle /\ \E i \in Candidates : TimeWith(i) < inf) =>
        /\ result.kind = "return"
        /\ \A i \in Candidates : result.value.time <= TimeWith(i)
        /\ result.value.index \in Candidates
        /\ result.value.vehicle = op.vehicles[result.value.index]
        /\ result.value.time = TimeWith(result.value.index)
        /\ result.value.time =
              total_travel_time(Registry, sequence, result.value.vehicle)
        /\ \A j \in 1..(result.value.index - 1) : TimeWith(j) # result.value.time

\* two different vehicles tie at a finite time above 0 and the first is returned
C5_Witness ==
    /\ IsFindFastestVehicle
    /\ Len(op.vehicles) >= 2
    /\ op.vehicles[1] # op.vehicles[2]
    /\ TimeWith(1) = TimeWith(2)
    /\ TimeWith(1) > 0
    /\ TimeWith(1) < inf
    /\ result.kind = "return"
    /\ result.value.index = 1

IsTotalTravelTime == op.name = "total_travel_time"

Legs == 1..(Len(sequence) - 1)

LegTime(i) == compute_travel_time(Registry, op.vehicle, sequence[i], sequence[i + 1])

\* C6: a trip with an impossible leg, wherever it is and whatever the other
\* legs take, has an infinite total_travel_time.
C6_ImpossibleLegGivesInf ==
    (IsTotalTravelTime /\ \E i \in Legs : LegTime(i) = inf) =>
        result = Returned(inf)

\* the impossible leg is the last one, after a leg that takes time
C6_Witness ==
    /\ IsTotalTravelTime
    /\ Len(sequence) >= 3
    /\ LegTime(1) > 0
    /\ LegTime(1) < inf
    /\ LegTime(Len(sequence) - 1) = inf
    /\ result = Returned(inf)

RECURSIVE SumOfLegs(_)
\* the time of the first n legs, added from the last one back
SumOfLegs(n) == IF n = 0 THEN 0 ELSE LegTime(n) + SumOfLegs(n - 1)

\* C7: a trip whose legs are all possible takes the sum of the times of its
\* legs, and 0 when it holds its departure only.
C7_SumOfLegs ==
    (IsTotalTravelTime /\ \A i \in Legs : LegTime(i) < inf) =>
        /\ result = Returned(SumOfLegs(Len(sequence) - 1))
        /\ Len(sequence) = 1 => result = Returned(0)

\* two possible legs of different times above 0
C7_Witness ==
    /\ IsTotalTravelTime
    /\ Len(sequence) >= 3
    /\ \A i \in Legs : LegTime(i) > 0 /\ LegTime(i) < inf
    /\ LegTime(1) # LegTime(2)
    /\ result.kind = "return"
    /\ result.value = LegTime(1) + LegTime(2)

----------------------------------------------------------------------------
(* Vehicle claims *)

IsComputeTravelTime == op.name = "compute_travel_time"

CountryNameOf(c) == countryObjs[cityObjs[c].country].name

IsPrimary(c) == cityObjs[c].capital_type = "primary"

\* C8: a DiplomacyDonutDinghy's travel time is finite between two cities of
\* one country and between two primary capitals, and infinite otherwise.
C8_DinghyPossibleLegs ==
    (IsComputeTravelTime /\ op.vehicle.cls = "DiplomacyDonutDinghy") =>
        /\ result.kind = "return"
        /\ IF \/ CountryNameOf(op.departure) = CountryNameOf(op.arrival)
              \/ IsPrimary(op.departure) /\ IsPrimary(op.arrival)
           THEN result.value < inf
           ELSE result.value = inf

\* a finite time between the primary capitals of two countries
C8_Witness ==
    /\ IsComputeTravelTime
    /\ op.vehicle.cls = "DiplomacyDonutDinghy"
    /\ CountryNameOf(op.departure) # CountryNameOf(op.arrival)
    /\ IsPrimary(op.departure) /\ IsPrimary(op.arrival)
    /\ result.kind = "return"
    /\ result.value < inf

\* C9: a TeleportingTarteTrolley's travel time is infinite exactly when the
\* distance is max_distance or more, and travel_time otherwise.
C9_TrolleyRange ==
    (IsComputeTravelTime /\ op.vehicle.cls = "TeleportingTarteTrolley") =>
        /\ result.kind = "return"
        /\ (result.value = inf)
              <=> distance(Registry, op.departure, op.arrival) >= op.vehicle.max_distance
        /\ distance(Registry, op.departure, op.arrival) < op.vehicle.max_distance
              => result.value = op.vehicle.travel_time

\* two cities exactly max_distance apart: impossible
C9_Witness ==
    /\ IsComputeTravelTime
    /\ op.vehicle.cls = "TeleportingTarteTrolley"
    /\ distance(Registry, op.departure, op.arrival) = op.vehicle.max_distance
    /\ result = Returned(inf)

\* C10: a CrappyCrepeCar's travel time is the distance over the speed,
\* rounded up to whole hours (the least h with h * speed >= distance), and
\* finite.
C10_CrepeCarCeil ==
    (IsComputeTravelTime /\ op.vehicle.cls = "CrappyCrepeCar") =>
        /\ result.kind = "return"
        /\ result.value * op.vehicle.speed
              >= distance(Registry, op.departure, op.arrival)
        /\ (result.value - 1) * op.vehicle.speed
              < distance(Registry, op.departure, op.arrival)
        /\ result.value < inf

\* a distance that is no multiple of the speed, and more than one hour
C10_Witness ==
    /\ IsComputeTravelTime
    /\ op.vehicle.cls = "CrappyCrepeCar"
    /\ distance(Registry, op.departure, op.arrival) % op.vehicle.speed # 0
    /\ distance(Registry, op.departure, op.arrival) > op.vehicle.speed
    /\ result.kind = "return"
    /\ result.value > 1

----------------------------------------------------------------------------
(* Vehicle construction claims *)

IsNewVehicle == op.name = "Vehicle"

\* the numeric parameters of a vehicle
ParametersOf(vehicle) ==
    CASE vehicle.cls = "CrappyCrepeCar" -> {vehicle.speed}
      [] vehicle.cls = "DiplomacyDonutDinghy" ->
            {vehicle.in_country_speed, vehicle.between_primary_speed}
      [] vehicle.cls = "TeleportingTarteTrolley" ->
            {vehicle.travel_time, vehicle.max_distance}

\* C11: constructing a vehicle with a non-positive speed, time or distance
\* fails with a ConfigurationError, and no vehicle object with a
\* non-positive parameter exists
C11_NonPositiveRejected ==
    /\ IsNewVehicle /\ (\E x \in ParametersOf(op.vehicle) : x <= 0)
           => result = Raised("ConfigurationError")
    /\ \A v \in VehicleRefs : \A x \in ParametersOf(vehicleObjs[v]) : x > 0

----------------------------------------------------------------------------
(* Registry claims *)

IsNewCountry == op.name = "Country"

IsNewCity == op.name = "City"

IsGetCities == op.name = "get_cities"

IsGetCity == op.name = "get_city"

\* how often x occurs in the sequence
Occurrences(seq, x) == Cardinality({i \in 1..Len(seq) : seq[i] = x})

\* the cities on the city list of some country
Listed == {c \in CityRefs : \E k \in CountryRefs : Occurrences(countryObjs[k].cities, c) > 0}

\* C12: every city is on the city list of the country it references, once,
\* and on no other list; the global index maps each identifier to the only
\* listed city that carries it
C12_OneCountryUniqueIds ==
    /\ \A c \in CityRefs : \A k \in CountryRefs :
           Occurrences(countryObjs[k].cities, c)
               = (IF cityObjs[c].country = k THEN 1 ELSE 0)
    /\ \A i \in 1..Len(cities) :
           {c \in Listed : cityObjs[c].city_id = cities[i].key} = {cities[i].val}

\* C13: Country(name, iso3) for a name already in Country.countries leaves
\* the entry of that name as it was: the same object, with its code and its
\* cities
C13_ReRegistrationKeepsEntry ==
    [][(op = NoCall /\ op'.name = "Country" /\ op'.country \in DictKeys(countries))
          => /\ DictGet(countries', op'.country) = DictGet(countries, op'.country)
             /\ countryObjs'[DictGet(countries', op'.country)]
                    = countryObjs[DictGet(countries, op'.country)]]_vars

\* C14: City(...) for a country that is not registered, or for a latitude
\* or longitude that is not numeric, raises and leaves City.cities,
\* Country.countries and every city list as they were
C14_FailedCityLeavesRegistry ==
    [][(/\ op = NoCall
        /\ op'.name = "City"
        /\ \/ op'.country \notin DictKeys(countries)
           \/ ~IsNumeric(op'.row.latitude)
           \/ ~IsNumeric(op'.row.longitude))
          => /\ result'.kind = "raise"
             /\ UNCHANGED <<countries, cities, countryObjs, cityObjs>>]_vars

\* a failed registration in a registry that holds a city
C14_Witness ==
    /\ IsNewCity
    /\ result = Raised("KeyError")
    /\ cityObjs # <<>>

\* the capital classification a raw capital type stands for
Classification(raw) ==
    CASE raw = "primary" -> "primary"
      [] raw = "admin" -> "admin"
      [] raw = "minor" -> "minor"
      [] OTHER -> "unspecified"

\* C15: after City(...) has succeeded, City.cities[city_id] is a city of
\* the name, coordinate, country, capital classification and identifier
\* handed to the call
C15_RoundTrip ==
    (IsNewCity /\ result.kind = "return")
        => /\ op.row.city_id \in DictKeys(cities)
           /\ LET city == cityObjs[DictGet(cities, op.row.city_id)]
              IN /\ city.name = op.row.name
                 /\ city.coordinate = <<op.row.latitude.value, op.row.longitude.value>>
                 /\ city.country = DictGet(countries, op.country)
                 /\ countryObjs[city.country].name = op.country
                 /\ city.capital_type = Classification(op.row.capital_type)
                 /\ city.city_id = op.row.city_id

\* a city of a capital type outside CapitalType, registered under a fresh
\* identifier after another city
C15_Witness ==
    /\ IsNewCity /\ result.kind = "return"
    /\ op.row.capital_type = "capital"
    /\ Len(cityObjs) = 2 /\ Len(cities) = 2

\* the cities of a country, in the order of their registration, that pass
Chosen(country, Pass(_)) ==
    LET own == {c \in CityRefs : cityObjs[c].country = country /\ Pass(c)}
        Rank(c) == Cardinality({d \in own : d < c})
    IN [i \in 1..Cardinality(own) |-> CHOOSE c \in own : Rank(c) = i - 1]

\* C16: get_cities(F) returns the cities of the country whose
\* classification is in F, in registration order, and all of them when no
\* filter is given
C16_FilterByMembership ==
    IsGetCities =>
        LET F == IF op.capital_types = None THEN CapitalTypeMembers
                 ELSE {op.capital_types.items[i] : i \in 1..Len(op.capital_types.items)}
            InF(c) == cityObjs[c].capital_type \in F
        IN result.value = Chosen(op.country, InF)

\* C17: get_city(name) returns the earliest-registered city of the country
\* with that name, None when there is none, and never a city of another
\* country
C17_FirstOfName ==
    IsGetCity =>
        LET Named(c) == cityObjs[c].name = op.city_name
            matches == Chosen(op.country, Named)
        IN IF Len(matches) = 0
           THEN result.value = None
           ELSE /\ result.value = CityRef(matches[1])
                /\ cityObjs[result.value.ref].country = op.country

\* two cities of one name in one country, the name looked up
C17_Witness ==
    /\ IsGetCity
    /\ Cardinality({c \in CityRefs : cityObjs[c].country = op.country
                                       /\ cityObjs[c].name = op.city_name}) = 2

----------------------------------------------------------------------------
(* Travel time claims *)

\* C18: for every vehicle, two cities at distance 0 (a city and itself
\* among them) are 0 hours apart
C18_ZeroDistanceZeroTime ==
    (IsComputeTravelTime /\ distance(Registry, op.departure, op.arrival) = 0)
        => result = Returned(0)

\* C19: compute_travel_time of a constructed vehicle returns inf or a
\* number that is not negative
C19_NonNegativeTime ==
    IsComputeTravelTime
        => /\ result.kind = "return"
           /\ result.value = inf \/ result.value >= 0

----------------------------------------------------------------------------
(* Trip construction claims *)

\* C20: after Trip(departure) and any add_next_city calls the sequence is
\* not empty, starts with the departure and is the departure followed by
\* the cities appended, in the order of the calls; each add_next_city
\* leaves what the sequence held before as its prefix
C20_SequenceIsCallOrder ==
    /\ [](calls # <<>> => /\ sequence # <<>>
                          /\ sequence[1] = calls[1]
                          /\ sequence = calls)
    /\ [][(calls # <<>> /\ Len(calls') = Len(calls) + 1)
             => /\ Len(sequence') = Len(sequence) + 1
                /\ SubSeq(sequence', 1, Len(sequence)) = sequence]_vars

\* a trip of three cities, no two neighbours the same
C20_Witness ==
    /\ Len(calls) = 3
    /\ Len(sequence) = 3
    /\ calls[1] # calls[2]
    /\ calls[2] # calls[3]

----------------------------------------------------------------------------
(* Distance claims *)

IsDistance == op.name = "distance"

----------------------------------------------------------------------------
(* Shape of the trips found *)

\* C22: a Trip returned by find_shortest_path(vehicle, A, B) starts with A,
\* ends with B, holds no city twice, and each of its legs is possible for
\* the vehicle, so that its total_travel_time(vehicle) is finite
C22_TripIsSimplePath ==
    (IsFindShortestPath /\ ReturnedTrip) =>
        LET seq == result.value.sequence
        IN /\ seq # <<>>
           /\ seq[1] = op.from_city
           /\ seq[Len(seq)] = op.to_city
           /\ \A i \in 1..Len(seq) : \A j \in 1..Len(seq) : seq[i] = seq[j] => i = j
           /\ \A i \in 1..(Len(seq) - 1) : Possible(op.vehicle, seq[i], seq[i + 1])
           /\ total_travel_time(Registry, seq, op.vehicle) < inf

\* a trip found through a third city
C22_Witness ==
    /\ IsFindShortestPath /\ ReturnedTrip
    /\ Len(result.value.sequence) = 3

\* C26: find_shortest_path(vehicle, A, A) returns the Trip of A alone,
\* whose total_travel_time is 0, never None
C26_SelfPath ==
    (IsFindShortestPath /\ op.from_city = op.to_city) =>
        /\ result = Returned([sequence |-> <<op.from_city>>])
        /\ total_travel_time(Registry, result.value.sequence, op.vehicle) = 0

\* a trolley that reaches no other city, asked the way from A to A
C26_Witness ==
    /\ IsFindShortestPath /\ op.from_city = op.to_city
    /\ op.vehicle.cls = "TeleportingTarteTrolley"
    /\ Len(cityObjs) > 1
    /\ \A c \in CityRefs : c # op.from_city => ~Possible(op.vehicle, op.from_city, c)
    /\ ReturnedTrip

----------------------------------------------------------------------------
(* Dinghy speeds and symmetry of the travel time *)

\* C23: a possible leg of a DiplomacyDonutDinghy costs
\* ceil(distance / in_country_speed) between two cities of one country, two
\* primary capitals included, and ceil(distance / between_primary_speed)
\* between cities of different countries
C23_DinghySpeeds ==
    (/\ IsComputeTravelTime
     /\ op.vehicle.cls = "DiplomacyDonutDinghy"
     /\ result.kind = "return"
     /\ result.value < inf) =>
        LET d == distance(Registry, op.departure, op.arrival)
            speed == IF CountryNameOf(op.departure) = CountryNameOf(op.arrival)
                     THEN op.vehicle.in_country_speed
                     ELSE op.vehicle.between_primary_speed
        IN /\ result.value * speed >= d
           /\ (result.value - 1) * speed < d

\* two primary capitals of one country, apart, and a dinghy of two speeds
\* that give different hours
C23_Witness ==
    /\ IsComputeTravelTime
    /\ op.vehicle.cls = "DiplomacyDonutDinghy"
    /\ CountryNameOf(op.departure) = CountryNameOf(op.arrival)
    /\ IsPrimary(op.departure) /\ IsPrimary(op.arrival)
    /\ op.vehicle.in_country_speed = 2
    /\ op.vehicle.between_primary_speed = 100
    /\ result = Returned(56)

\* C24: for each vehicle, the travel time from A to B is the travel time
\* from B to A
C24_TravelTimeSymmetric ==
    IsComputeTravelTime =>
        result = compute_travel_time_outcome(Registry, op.vehicle,
                                             op.arrival, op.departure)

\* a leg across a border from a primary capital to a city that is none
C24_Witness ==
    /\ IsComputeTravelTime
    /\ op.vehicle.cls = "DiplomacyDonutDinghy"
    /\ CountryNameOf(op.departure) # CountryNameOf(op.arrival)
    /\ IsPrimary(op.departure) /\ ~IsPrimary(op.arrival)
    /\ result = Returned(inf)

----------------------------------------------------------------------------
(* Registry consistency *)

\* C25: every city of City.cities references the Country object that is
\* registered under that country's name, and the city list of that object
\* holds the city
C25_IndexedCitiesOwned ==
    \A i \in 1..Len(cities) :
        LET city == cities[i].val
            owner == cityObjs[city].country
        IN /\ countryObjs[owner].name \in DictKeys(countries)
           /\ DictGet(countries, countryObjs[owner].name) = owner
           /\ Occurrences(countryObjs[owner].cities, city) > 0

----------------------------------------------------------------------------
(* Fastest vehicle of no vehicle *)

\* C27: find_fastest_vehicle returns a pair for every vehicle list and
\* never raises; for the empty list the pair is (None, inf)
C27_PairForEveryList ==
    IsFindFastestVehicle =>
        /\ result.kind = "return"
        /\ op.vehicles = <<>> =>
               /\ result.value.vehicle = None
               /\ result.value.time = inf

----------------------------------------------------------------------------
(* Wizard and singleton claims *)

IsAddVehicle == op.name = "AddVehicleAttributeMenu.execute"

IsConfirmTrip == op.name = "AddTripConfirmTripMenu.execute"

IsGetInstance == op.name = "get_instance"

IsNewNavigationSystem == op.name = "NavigationSystem"

PositiveInteger(x) == x \in Nat /\ x > 0

\* the values entered so far in the add-vehicle wizard
Entered == {ui.parameters[i].val : i \in 1..Len(ui.parameters)}

\* C28: in the add-vehicle wizard every parameter stored is a positive
\* integer; the vehicle list changes only by Confirm with every parameter
\* of the vehicle type specified, which appends a vehicle of that type and
\* of the parameters entered; Go back and Ctrl-C return False and leave
\* the list as it was
C28_VehicleOnlyOnConfirm ==
    /\ [](InAddVehicle => \A x \in Entered : PositiveInteger(x))
    /\ [](\A i \in 1..Len(SystemVehicles) :
              \A x \in ParametersOf(SystemVehicles[i]) : PositiveInteger(x))
    /\ [][SystemVehicles' # SystemVehicles
             => /\ InAddVehicle
                /\ op'.name = "AddVehicleAttributeMenu.execute"
                /\ op'.option = "confirm"
                /\ DictKeys(ui.parameters)
                      = {vehicle_parameters(ui.vehicle_type)[i] :
                            i \in 1..Len(vehicle_parameters(ui.vehicle_type))}
                /\ Len(SystemVehicles') = Len(SystemVehicles) + 1
                /\ SubSeq(SystemVehicles', 1, Len(SystemVehicles)) = SystemVehicles
                /\ SystemVehicles'[Len(SystemVehicles')].cls = ui.vehicle_type
                /\ ParametersOf(SystemVehicles'[Len(SystemVehicles')]) = Entered]_vars
    /\ [][(InAddVehicle /\ ui' = Closed /\ op'.option \in Leaves)
             => /\ result' = Returned(FALSE)
                /\ SystemVehicles' = SystemVehicles]_vars

\* a dinghy of two different speeds saved by Confirm
C28_Witness ==
    /\ IsAddVehicle
    /\ op.option = "confirm"
    /\ result = Returned(TRUE)
    /\ SystemVehicles = <<DiplomacyDonutDinghy(1, 200)>>

\* C29: the last step of the automatic add-trip wizard returns False when
\* find_shortest_path finds no trip or the user goes back or cancels, and
\* returns True only after Confirm, the trip saved last being the trip
\* that find_shortest_path returned, of a finite travel time for the
\* vehicle selected
C29_AutomaticTripSaved ==
    (IsConfirmTrip /\ op.trip_type = "automatic") =>
        LET found == find_shortest_path(Registry, op.vehicle, op.trip[1], op.trip[2])
        IN /\ (found = Returned(None) \/ op.option \in Leaves)
                  => result = Returned(FALSE)
           /\ result.kind = "return"
           /\ result = Returned(TRUE)
                  => /\ op.option = "confirm"
                     /\ found.kind = "return" /\ found.value # None
                     /\ SystemTrips # <<>>
                     /\ SystemTrips[Len(SystemTrips)] = found.value.sequence
                     /\ total_travel_time(Registry, found.value.sequence, op.vehicle) < inf

\* C30: at most one NavigationSystem object exists; get_instance() returns
\* the stored instance, which never changes once it is stored;
\* NavigationSystem() while an instance is stored raises and leaves the
\* instance, its vehicles and its trips as they were
C30_Singleton ==
    /\ [](Len(systemObjs) <= 1)
    /\ [](instance # None => instance = SystemRef(1))
    /\ [](IsGetInstance => instance # None /\ result = Returned(instance))
    /\ [][instance # None => instance' = instance]_vars
    /\ [][(op = NoCall /\ op'.name = "NavigationSystem" /\ instance # None)
             => /\ result'.kind = "raise"
                /\ UNCHANGED <<instance, systemObjs>>]_vars

\* NavigationSystem() refused while the instance holds a vehicle
C30_Witness ==
    /\ IsNewNavigationSystem
    /\ result.kind = "raise"
    /\ SystemVehicles # <<>>

====
